---- MODULE Spec2Model ----
(***************************************************************************)
(* The session-and-extraction engine (app/scraper.py, IvaSmsScraper) and   *)
(* the controller that drives it (app/bot.py, TelegramBot).                *)
(*                                                                         *)
(* The browser is an opaque capability: what a page shows and which driver *)
(* call faults are inputs of each engine call, drawn with \E.  An engine   *)
(* call is synchronous Python, so it is one step; a handler of the         *)
(* controller is a coroutine and is cut at the awaits where it suspends.   *)
(* A loop that only awaits send_message is taken with the step before it:  *)
(* its sends write the chat alone and commute with every other step.       *)
(***************************************************************************)
EXTENDS Integers, Sequences, FiniteSets, TLC

\* ------------------------------------------------------------- bounds
\* message identities 1..MaxId; 0 is the empty text
MaxId == 2
\* driver handles that may be created in one run
MaxHandles == 2
\* repeating jobs the job queue may hold
MaxJobs == 2
\* replies to chats that are not the configured one
MaxDenied == 1

\* rows of one rendered table, and the largest count given to /last_otp
MaxRows == MaxId
MaxCount == MaxId

VARIABLES
  driver,       \* self.driver: None or the handle the engine holds
  live,         \* handles created and not yet quit
  created,      \* number of handles created so far
  sent_otps,    \* self.sent_otps
  bot_status,   \* TelegramBot.bot_status
  jobs,         \* jobs named 'monitor_job' in the job queue
  hpc,          \* where the update handler in progress is suspended
  hcount,       \* its local `count` (/last_otp)
  conv,         \* state of the /get_old_otps conversation
  text,         \* update.message.text of the message receive_dates handles
  polled,       \* per identity: times fetch_new_otps returned it
  otpSends,     \* per identity: send_message calls by monitor_otps and /last_otp
  notified,     \* engine notifications that reached bot.send_message
  loginFaulted, \* the latest login call failed on a driver fault
  restart,      \* the /restart in progress: the engine as the command found it
  inflight,     \* the engine call followed wait by wait: where it is, time left
  denied,       \* "You are not authorized" replies sent so far
  last          \* the engine call made by the latest step, if any

vars == <<driver, live, created, sent_otps, bot_status, jobs, hpc, hcount,
          conv, text, polled, otpSends, notified, loginFaulted, restart,
          inflight, denied, last>>

\* ------------------------------------------------------------ values
None == 0
Ids == 1..MaxId
Empty == 0

\* exceptions a driver call can raise; TimeoutException and
\* NoSuchElementException are subclasses of WebDriverException
NoExc == "none"
TimeoutException == "TimeoutException"
NoSuchElementException == "NoSuchElementException"
WebDriverException == "WebDriverException"
AttributeError == "AttributeError"

IsWebDriverException(e) ==
  e \in {TimeoutException, NoSuchElementException, WebDriverException}

\* the first exception of a sequence of steps run in order
RECURSIVE FirstExc(_)
FirstExc(es) ==
  IF es = <<>> THEN NoExc
  ELSE IF Head(es) # NoExc THEN Head(es) ELSE FirstExc(Tail(es))

\* `a or b` on two expected-condition objects: a function object is truthy,
\* so the expression is its first operand
PyOr(a, b) == a

\* WebDriverWait(driver, t).until(cond): page is the set of conditions that
\* come true within the bound
Until(cond, page) == IF cond \in page THEN NoExc ELSE TimeoutException

\* a method called on self.driver, with a mutation that lets a call on None
\* go through as on a handle
OnDriver_none_answers(drv, exc) == exc

\* a method called on self.driver while it is None
OnDriver(drv, exc) == IF drv = None THEN AttributeError ELSE exc

\* ------------------------------------------------- try / except
\* whether an `except cls` clause catches exception e
Catches(cls, e) ==
  \/ cls = "Exception"
  \/ cls = e
  \/ cls = WebDriverException /\ IsWebDriverException(e)

\* the first of the except clauses (each a set of classes) that catches e;
\* 0 when none does and e leaves the method
ClauseFor(clauses, e) ==
  LET hit == {i \in 1..Len(clauses) : \E c \in clauses[i] : Catches(c, e)}
  IN  IF hit = {} THEN 0 ELSE CHOOSE i \in hit : \A j \in hit : i <= j

\* ------------------------------------------------- notifications
\* TelegramBot.__init__ sets notification_callback to the coroutine function
\* send_message; calling it builds a coroutine object that nobody awaits, so
\* its body (the bot API call) does not run
CallCallback(message) == {}

\* _send_notification: the texts that reached the chat, and the console line
_send_notification(message) ==
  [chat |-> CallCallback(message), console |-> message]

\* the chat's share of a call's notifications
Delivered(notes) ==
  UNION {_send_notification(notes[i]).chat : i \in 1..Len(notes)}

\* ------------------------------------------------- driver handle
\* _initialize_driver: quit the old handle if there is one, build a new one.
\* create: "ok", "ctor_fault" (webdriver.Chrome raises: nothing is assigned),
\* "config_fault" (set_page_load_timeout / implicitly_wait raises after the
\* handle was assigned)
_initialize_driver(drv, lv, cr, create) ==
  LET kept == IF drv # None THEN lv \ {drv} ELSE lv
      new  == cr + 1
  IN  CASE create = "ctor_fault" ->
             [driver |-> drv, live |-> kept, created |-> cr,
              exc |-> WebDriverException]
        [] create = "config_fault" ->
             [driver |-> new, live |-> kept \union {new}, created |-> new,
              exc |-> WebDriverException]
        [] OTHER ->
             [driver |-> new, live |-> kept \union {new}, created |-> new,
              exc |-> NoExc]

\* close, with a mutation that drops the handle without quitting it
close_no_quit(drv, lv, quit) ==
  [driver |-> None, live |-> lv, raised |-> FALSE, quits |-> 0]

\* close: quit: "ok", or quit() raises with the browser gone
\* ("fault_released") or still running ("fault_live")
close(drv, lv, quit) ==
  IF drv = None
  THEN [driver |-> drv, live |-> lv, raised |-> FALSE, quits |-> 0]
  ELSE CASE quit = "ok" ->
              [driver |-> None, live |-> lv \ {drv}, raised |-> FALSE,
               quits |-> 1]
         [] quit = "fault_released" ->
              [driver |-> drv, live |-> lv \ {drv}, raised |-> TRUE,
               quits |-> 1]
         [] OTHER ->
              [driver |-> drv, live |-> lv, raised |-> TRUE, quits |-> 1]

\* ------------------------------------------------- login
\* a fault of the driver, as opposed to a wait that ran out or an element
\* that is not on the page
DriverFault(e) == e = WebDriverException

login_clauses ==
  <<{TimeoutException, NoSuchElementException, WebDriverException},
    {"Exception"}>>

\* the condition login waits for after the form was submitted
LoginWaitCondition == PyOr("url_portal", "sidebar")

\* the guard of line 47, with a mutation that builds a handle on every login
NeedsDriver_always(drv) == TRUE

\* line 47: `if not self.driver`
NeedsDriver(drv) == drv = None

\* login. b.create: see _initialize_driver; b.fault: the exception of lines
\* 50-59 (page load, form wait, element lookup, typing, click), if any;
\* b.page: what comes true within 20 s of the click
login(drv, lv, cr, b) ==
  LET init == IF NeedsDriver(drv)
              THEN _initialize_driver(drv, lv, cr, b.create)
              ELSE [driver |-> drv, live |-> lv, created |-> cr, exc |-> NoExc]
      exc  == FirstExc(<<init.exc, b.fault, Until(LoginWaitCondition, b.page)>>)
      k    == ClauseFor(login_clauses, exc)
  IN  [driver |-> init.driver, live |-> init.live, created |-> init.created,
       ok |-> exc = NoExc,
       exc |-> exc,
       raised |-> exc # NoExc /\ k = 0,
       notes |-> CASE exc = NoExc -> <<"Login successful.">>
                   [] k = 1 -> <<"Login failed">>
                   [] k = 2 -> <<"An unexpected error occurred during login">>
                   [] OTHER -> <<>>]

\* ------------------------------------------------- handle_popup
handle_popup_clauses ==
  <<{TimeoutException}, {NoSuchElementException, WebDriverException},
    {"Exception"}>>

\* the inner try of handle_popup, with a mutation that lets its timeout out
NextStep_no_inner_try(exc) == exc

\* the inner try around "Next": except TimeoutException: pass
NextStep(exc) == IF exc = TimeoutException THEN NoExc ELSE exc

\* handle_popup. b.page: the conditions that come true within their bounds
\* ("modal", "next_clickable", "next_gone", "done_clickable", "modal_gone");
\* b.click: "ok", or the click that raises ("next_fault", "done_fault")
handle_popup(drv, b) ==
  LET modal == OnDriver(drv, Until("modal", b.page))
      next  == FirstExc(<<Until("next_clickable", b.page),
                          IF b.click = "next_fault" THEN WebDriverException
                          ELSE NoExc,
                          Until("next_gone", b.page)>>)
      done  == FirstExc(<<Until("done_clickable", b.page),
                          IF b.click = "done_fault" THEN WebDriverException
                          ELSE NoExc,
                          Until("modal_gone", b.page)>>)
      exc   == FirstExc(<<modal, NextStep(next), done>>)
      k     == ClauseFor(handle_popup_clauses, exc)
      seen  == IF modal = NoExc
               THEN <<"Pop-up detected. Attempting to close.">> ELSE <<>>
      nxt   == IF modal = NoExc /\ next = NoExc
               THEN <<"Clicked Next on pop-up.">> ELSE <<>>
  IN  [ok |-> exc = NoExc,
       raised |-> exc # NoExc /\ k = 0,
       notes |-> seen \o nxt \o
                 CASE exc = NoExc -> <<"Pop-up closed successfully.">>
                   [] k = 1 -> <<"No pop-up or pop-up closed automatically.">>
                   [] k = 2 -> <<"Error handling pop-up">>
                   [] k = 3 ->
                      <<"An unexpected error occurred during pop-up handling">>
                   [] OTHER -> <<>>]

\* ------------------------------------------------- navigate_to_otp_page
navigate_clauses ==
  <<{TimeoutException, NoSuchElementException, WebDriverException},
    {"Exception"}>>

\* navigate_to_otp_page. b.page: conditions that come true within their
\* bounds ("sidebar", "menu_clickable", "link_clickable", "url_feed");
\* b.click: "ok", "menu_fault" or "link_fault"
navigate_to_otp_page(drv, b) ==
  LET exc == FirstExc(<<OnDriver(drv, Until("sidebar", b.page)),
                        Until("menu_clickable", b.page),
                        IF b.click = "menu_fault" THEN WebDriverException
                        ELSE NoExc,
                        Until("link_clickable", b.page),
                        IF b.click = "link_fault" THEN WebDriverException
                        ELSE NoExc,
                        Until("url_feed", b.page)>>)
      k   == ClauseFor(navigate_clauses, exc)
  IN  [ok |-> exc = NoExc,
       raised |-> exc # NoExc /\ k = 0,
       notes |-> CASE exc = NoExc ->
                        <<"Successfully navigated to My SMS Statistics page.">>
                   [] k = 1 -> <<"Navigation to OTP page failed">>
                   [] k = 2 ->
                        <<"An unexpected error occurred during navigation">>
                   [] OTHER -> <<>>]

\* ------------------------------------------------- the rendered table
\* a row of the table: Malformed has no third cell; otherwise the raw text
\* of the third cell: 2*i is the text of identity i, 2*i+1 the same text with
\* blanks around it (0 is "", 1 is blanks only)
Malformed == 0 - 1
RawTexts == 0..(2 * MaxId + 1)
RowVals == {Malformed} \union RawTexts

\* str.strip
Strip(raw) == raw \div 2

\* what the table's two locators find on a page
TableConditions(rows, marker) ==
  (IF rows # <<>> THEN {"rows"} ELSE {}) \union
  (IF marker THEN {"marker"} ELSE {})

\* the condition the table waits resolve on
TableWaitCondition == PyOr("rows", "marker")

\* the for loop, with a mutation that has no try around the cell lookup: a
\* row without the cell ends the loop
RECURSIVE ReadRows_abort_on_malformed(_, _, _, _, _)
ReadRows_abort_on_malformed(rows, i, failAt, otps, notes) ==
  IF i > Len(rows) THEN [out |-> otps, notes |-> notes, exc |-> NoExc]
  ELSE IF i = failAt
       THEN [out |-> otps, notes |-> notes, exc |-> WebDriverException]
  ELSE IF rows[i] = Malformed
       THEN [out |-> otps, notes |-> notes, exc |-> NoSuchElementException]
  ELSE ReadRows_abort_on_malformed(rows, i + 1, failAt,
                                   Append(otps, Strip(rows[i])), notes)

\* the for loop of _extract_otps_from_table from row i on; failAt is the row
\* whose lookup raises a WebDriverException (0: none)
RECURSIVE ReadRows(_, _, _, _, _)
ReadRows(rows, i, failAt, otps, notes) ==
  IF i > Len(rows) THEN [out |-> otps, notes |-> notes, exc |-> NoExc]
  ELSE IF i = failAt
       THEN [out |-> otps, notes |-> notes, exc |-> WebDriverException]
  ELSE IF rows[i] = Malformed
       THEN ReadRows(rows, i + 1, failAt, otps,
              Append(notes, "Could not find message text in a row. Skipping."))
  ELSE ReadRows(rows, i + 1, failAt, Append(otps, Strip(rows[i])), notes)

extract_clauses ==
  <<{TimeoutException, NoSuchElementException, WebDriverException}>>

\* _extract_otps_from_table on a page [rows, marker, failAt]: exc is the
\* exception that leaves the method
_extract_otps_from_table(drv, b) ==
  LET wait == OnDriver(drv,
                Until(TableWaitCondition, TableConditions(b.rows, b.marker)))
      read == ReadRows(b.rows, 1, b.failAt, <<>>, <<>>)
      exc  == IF wait # NoExc THEN wait
              ELSE IF b.marker THEN NoExc ELSE read.exc
      k    == ClauseFor(extract_clauses, exc)
      body == IF wait # NoExc THEN [out |-> <<>>, notes |-> <<>>]
              ELSE IF b.marker
              THEN [out |-> <<>>,
                    notes |-> <<"No data available in the SMS statistics table.">>]
              ELSE [out |-> read.out, notes |-> read.notes]
  IN  [out |-> body.out,
       exc |-> IF k = 0 THEN exc ELSE NoExc,
       notes |-> body.notes \o
                 (IF exc # NoExc /\ k = 1
                  THEN <<"Error extracting OTPs from table">> ELSE <<>>)]

\* ------------------------------------------------- fetch_new_otps
\* the dedup loop, with a mutation that forgets the membership test
NewMessages_no_test(otps, seen, acc) ==
  [new |-> SelectSeq(otps, LAMBDA o : o # Empty),
   seen |-> seen \union {otps[i] : i \in 1..Len(otps)}]

\* the dedup loop, with a mutation that puts each new text at the front of
\* the list
RECURSIVE NewMessages_newest_first(_, _, _)
NewMessages_newest_first(otps, seen, acc) ==
  IF otps = <<>> THEN [new |-> acc, seen |-> seen]
  ELSE IF Head(otps) # Empty /\ Head(otps) \notin seen
       THEN NewMessages_newest_first(Tail(otps), seen \union {Head(otps)},
                                     <<Head(otps)>> \o acc)
  ELSE NewMessages_newest_first(Tail(otps), seen, acc)

\* the dedup loop, with a mutation that starts a fresh set on every call
NewMessages_fresh_set(otps, seen, acc) ==
  [new |-> SelectSeq(otps, LAMBDA o : o # Empty /\ o \notin seen),
   seen |-> {otps[i] : i \in 1..Len(otps)} \ {Empty}]

\* the dedup loop, with a mutation that tests every text against the set as
\* it was when the call began and adds the new texts after the loop
NewMessages_add_after_loop(otps, seen, acc) ==
  [new |-> SelectSeq(otps, LAMBDA o : o # Empty /\ o \notin seen),
   seen |-> seen \union ({otps[i] : i \in 1..Len(otps)} \ {Empty})]

\* the dedup loop, with a mutation that forgets the `otp and` test
RECURSIVE NewMessages_keeps_blank(_, _, _)
NewMessages_keeps_blank(otps, seen, acc) ==
  IF otps = <<>> THEN [new |-> acc, seen |-> seen]
  ELSE IF Head(otps) \notin seen
       THEN NewMessages_keeps_blank(Tail(otps), seen \union {Head(otps)},
                                    Append(acc, Head(otps)))
  ELSE NewMessages_keeps_blank(Tail(otps), seen, acc)

\* the dedup loop of fetch_new_otps: test, append and add, record by record
RECURSIVE NewMessages(_, _, _)
NewMessages(otps, seen, acc) ==
  IF otps = <<>> THEN [new |-> acc, seen |-> seen]
  ELSE IF Head(otps) # Empty /\ Head(otps) \notin seen
       THEN NewMessages(Tail(otps), seen \union {Head(otps)},
                        Append(acc, Head(otps)))
  ELSE NewMessages(Tail(otps), seen, acc)

\* the except clauses of fetch_new_otps, with a mutation that drops the
\* last one
fetch_clauses_webdriver_only == <<{WebDriverException}>>

fetch_new_otps_clauses == <<{WebDriverException}, {"Exception"}>>

\* fetch_new_otps. b.get: "ok" or "fault" (the reload raises); b.rows,
\* b.marker, b.failAt: the page, see _extract_otps_from_table
fetch_new_otps(drv, seen, b) ==
  LET get == OnDriver(drv, IF b.get = "fault" THEN WebDriverException
                           ELSE NoExc)
      ex  == _extract_otps_from_table(drv, b)
      exc == FirstExc(<<get, ex.exc>>)
      k   == ClauseFor(fetch_new_otps_clauses, exc)
      res == NewMessages(ex.out, seen, <<>>)
  IN  [out |-> IF exc = NoExc THEN res.new ELSE <<>>,
       sent_otps |-> IF exc = NoExc THEN res.seen ELSE seen,
       extracted |-> IF exc = NoExc THEN ex.out ELSE <<>>,
       ok |-> exc = NoExc,
       raised |-> exc # NoExc /\ k = 0,
       notes |-> (IF get = NoExc THEN ex.notes ELSE <<>>) \o
                 CASE exc = NoExc -> <<>>
                   [] k = 1 -> <<"WebDriver error during new OTP fetch">>
                   [] k = 2 ->
                      <<"An unexpected error occurred during new OTP fetch">>
                   [] OTHER -> <<>>]

\* ------------------------------------------------- get_historical_otps
get_historical_clauses ==
  <<{TimeoutException, NoSuchElementException, WebDriverException},
    {"Exception"}>>

\* get_historical_otps, with a mutation that passes the extracted texts
\* through the test of fetch_new_otps against sent_otps
get_historical_otps_unseen_only(drv, b) ==
  LET get  == OnDriver(drv, IF b.get = "fault" THEN WebDriverException
                            ELSE NoExc)
      form == CASE b.form = "timeout" -> TimeoutException
                [] b.form = "missing" -> NoSuchElementException
                [] b.form = "fault" -> WebDriverException
                [] OTHER -> NoExc
      wait == Until(TableWaitCondition, TableConditions(b.rows, b.marker))
      ex   == _extract_otps_from_table(drv, b)
      pre  == FirstExc(<<get, form, wait>>)
      exc  == FirstExc(<<pre, ex.exc>>)
      k    == ClauseFor(get_historical_clauses, exc)
  IN  [out |-> IF exc = NoExc
               THEN SelectSeq(ex.out, LAMBDA o : o \notin sent_otps)
               ELSE <<>>,
       ok |-> exc = NoExc,
       raised |-> exc # NoExc /\ k = 0,
       notes |-> (IF pre = NoExc THEN ex.notes ELSE <<>>) \o
                 CASE exc = NoExc -> <<>>
                   [] k = 1 -> <<"Error fetching historical OTPs">>
                   [] k = 2 ->
                      <<"An unexpected error occurred during historical OTP fetch">>
                   [] OTHER -> <<>>]

\* get_historical_otps. b.get as for fetch_new_otps; b.form: "ok",
\* "timeout" (no date field within 10 s), "missing" (a field or the button
\* is not found), "fault" (clear, send_keys or click raises); b.rows,
\* b.marker, b.failAt: the table in the document when the wait of line 182
\* polls it and line 187 reads it; b.table: which rendering that is,
\* "reloaded" (the feed as the reload of line 169 drew it, the answer to the
\* query not yet drawn) or "queried" (the table drawn in answer to the
\* click of line 180). The method never looks at which one it is: the wait
\* asks for a row, and a row of either rendering is one.
get_historical_otps(drv, b) ==
  LET get  == OnDriver(drv, IF b.get = "fault" THEN WebDriverException
                            ELSE NoExc)
      form == CASE b.form = "timeout" -> TimeoutException
                [] b.form = "missing" -> NoSuchElementException
                [] b.form = "fault" -> WebDriverException
                [] OTHER -> NoExc
      wait == Until(TableWaitCondition, TableConditions(b.rows, b.marker))
      ex   == _extract_otps_from_table(drv, b)
      pre  == FirstExc(<<get, form, wait>>)
      exc  == FirstExc(<<pre, ex.exc>>)
      k    == ClauseFor(get_historical_clauses, exc)
  IN  [out |-> IF exc = NoExc THEN ex.out ELSE <<>>,
       ok |-> exc = NoExc,
       raised |-> exc # NoExc /\ k = 0,
       notes |-> (IF pre = NoExc THEN ex.notes ELSE <<>>) \o
                 CASE exc = NoExc -> <<>>
                   [] k = 1 -> <<"Error fetching historical OTPs">>
                   [] k = 2 ->
                      <<"An unexpected error occurred during historical OTP fetch">>
                   [] OTHER -> <<>>]

\* ------------------------------------------------- controller helpers
\* all_otps[-count:]
LastN(otps, count) ==
  IF count >= Len(otps) THEN otps
  ELSE SubSeq(otps, Len(otps) - count + 1, Len(otps))

\* `'monitor_job' in context.job_queue.jobs()`: jobs() is a tuple of Job
\* objects and a str is equal to none of them
HasMonitorJob(js) == FALSE

\* lines 76-78 of start_command: remove the old job if found, add a new one
ScheduleMonitor(js) ==
  IF HasMonitorJob(js) THEN (js - 1) + 1 ELSE js + 1

\* send_message of one OTP text per element of otps, in order: one bot API
\* call each; an exception of the call is logged and swallowed
RECURSIVE send_message(_, _)
send_message(counts, otps) ==
  IF otps = <<>> THEN counts
  ELSE send_message(
         IF Head(otps) \in Ids THEN [counts EXCEPT ![Head(otps)] = @ + 1]
         ELSE counts,
         Tail(otps))

\* one more return by fetch_new_otps of each element of otps
RECURSIVE Returned(_, _)
Returned(counts, otps) ==
  IF otps = <<>> THEN counts
  ELSE Returned(
         IF Head(otps) \in Ids THEN [counts EXCEPT ![Head(otps)] = @ + 1]
         ELSE counts,
         Tail(otps))

\* the text the operator typed, as character classes: "d" a digit, "-", " ",
\* "x" any other character
DateToken == <<"d", "d", "d", "d", "-", "d", "d", "-", "d", "d">>
date_pattern == DateToken \o <<" ">> \o DateToken

\* str.strip of the typed text
RECURSIVE StripLeft(_)
StripLeft(t) ==
  IF t # <<>> /\ Head(t) = " " THEN StripLeft(Tail(t)) ELSE t

RECURSIVE StripRight(_)
StripRight(t) ==
  IF t # <<>> /\ t[Len(t)] = " " THEN StripRight(SubSeq(t, 1, Len(t) - 1))
  ELSE t

StripText(t) == StripRight(StripLeft(t))

\* str.split(): the runs of characters between blanks
RECURSIVE Split(_)
Split(t) ==
  LET u == StripLeft(t)
      n == IF \E k \in 1..Len(u) : u[k] = " "
           THEN (CHOOSE k \in 1..Len(u) :
                   u[k] = " " /\ \A j \in 1..(k - 1) : u[j] # " ") - 1
           ELSE Len(u)
  IN  IF u = <<>> THEN <<>>
      ELSE <<SubSeq(u, 1, n)>> \o Split(SubSeq(u, n + 1, Len(u)))

\* re.match, with a mutation that leaves the `$` out of the pattern
MatchesDatePattern_prefix(t) ==
  Len(t) >= Len(date_pattern) /\ SubSeq(t, 1, Len(date_pattern)) = date_pattern

\* re.match(date_pattern, dates_input)
MatchesDatePattern(t) == t = date_pattern

\* texts the operator may type in the date-input state
DateTexts ==
  { date_pattern,
    <<" ">> \o date_pattern \o <<" ">>,
    DateToken \o <<" ", " ">> \o DateToken,
    DateToken,
    DateToken \o <<" ">> \o <<"x", "x", "x", "x", "-", "d", "d", "-", "d", "d">>,
    date_pattern \o <<"x">> }

\* ------------------------------------------------- inputs
LoginInputs ==
  [create : {"ok", "ctor_fault", "config_fault"},
   fault : {NoExc, TimeoutException, NoSuchElementException,
            WebDriverException},
   page : SUBSET {"url_portal", "sidebar"}]

PopupInputs ==
  [page : SUBSET {"modal", "next_clickable", "next_gone", "done_clickable",
                  "modal_gone"},
   click : {"ok", "next_fault", "done_fault"}]

NavInputs ==
  [page : SUBSET {"sidebar", "menu_clickable", "link_clickable", "url_feed"},
   click : {"ok", "menu_fault", "link_fault"}]

Tables ==
  UNION {[1..n -> RowVals] : n \in 0..MaxRows}

\* a page of the feed. Rows after one whose lookup raises are never read, so
\* the failing row is the last one; with the marker shown or the reload
\* failing no row is read at all
TablePages ==
  {[rows |-> r, marker |-> FALSE, failAt |-> f] :
     r \in Tables, f \in 0..MaxRows} \union
  {[rows |-> r, marker |-> TRUE, failAt |-> 0] : r \in {<<>>, <<Malformed>>}}

FetchInputs ==
  {[get |-> "ok", rows |-> p.rows, marker |-> p.marker, failAt |-> p.failAt] :
     p \in {q \in TablePages : q.failAt \in {0, Len(q.rows)}}} \union
  {[get |-> "fault", rows |-> <<>>, marker |-> FALSE, failAt |-> 0]}

\* the renderings a table can belong to: rows drawn by the reload stay in
\* the document until the answer to the query replaces them
Renderings(p) ==
  IF p.rows # <<>> /\ ~p.marker THEN {"reloaded", "queried"} ELSE {"queried"}

HistInputs ==
  {[get |-> "ok", form |-> "ok", rows |-> p.rows, marker |-> p.marker,
    failAt |-> p.failAt, table |-> t] :
     <<p, t>> \in {<<q, u>> \in TablePages \X {"reloaded", "queried"} :
                     q.failAt \in {0, Len(q.rows)} /\ u \in Renderings(q)}}
  \union
  {[get |-> g, form |-> fm, rows |-> <<>>, marker |-> FALSE, failAt |-> 0,
    table |-> "reloaded"] :
     g \in {"ok", "fault"}, fm \in {"timeout", "missing", "fault"}}
  \union
  {[get |-> "fault", form |-> "ok", rows |-> <<>>, marker |-> FALSE,
    failAt |-> 0, table |-> "reloaded"]}

\* the pages the controller is run on: every row has a message text, or
\* the page has one row at most; the engine alone is run on all pages
Plain(b) ==
  \/ Len(b.rows) <= 1
  \/ /\ b.failAt = 0
     /\ \A k \in 1..Len(b.rows) : b.rows[k] # Malformed /\ Strip(b.rows[k]) # Empty

FeedInputs == {b \in FetchInputs : Plain(b)}

FeedHistInputs == {b \in HistInputs : Plain(b)}

\* ------------------------------------------------- state
NoCall == [op |-> "none"]

\* the record of an engine call: the method, the function it was called by,
\* its input b, the engine before it, its result
Call(op, by, b, r, out) ==
  [op |-> op, by |-> by, b |-> b, driver |-> driver, live |-> live,
   created |-> created, loginFaulted |-> loginFaulted,
   sent_otps |-> sent_otps, ok |-> r.ok, out |-> out, raised |-> r.raised,
   notes |-> r.notes]

\* no /restart is in progress
NoRestart == [on |-> FALSE]

\* no engine call is being followed wait by wait
NoWait == [op |-> "none"]

\* the same, with a mutation that hands engine calls to a worker thread:
\* the event loop goes on while a call has yet to return
Running_always == TRUE

\* control is in the event loop or in a coroutine, not in an engine call
\* that has yet to return
Running == last = NoCall

\* the handler runs lines 67-82 of start_command without suspending
InSync == hpc \in {"start_69", "start_72"}

Init ==
  /\ driver = None
  /\ live = {}
  /\ created = 0
  /\ sent_otps = {}
  /\ bot_status = "Initializing..."
  /\ jobs = 0
  /\ hpc = "idle"
  /\ hcount = 0
  /\ conv = "END"
  /\ text = <<>>
  /\ polled = [i \in Ids |-> 0]
  /\ otpSends = [i \in Ids |-> 0]
  /\ notified = {}
  /\ loginFaulted = FALSE
  /\ restart = NoRestart
  /\ inflight = NoWait
  /\ denied = 0
  /\ last = NoCall

\* ------------------------------------------------- /start
\* start_command up to the await of reply_html (line 61)
StartCommand ==
  /\ Running
  /\ UNCHANGED <<restart, text, inflight, denied>>
  /\ UNCHANGED loginFaulted
  /\ hpc = "idle"
  /\ hpc' = "start_61"
  /\ UNCHANGED <<last, driver, live, created, sent_otps, bot_status, jobs, hcount,
                 conv, polled, otpSends, notified>>

\* lines 64-65: the status, then the await of send_message
StartOnline ==
  /\ Running
  /\ UNCHANGED <<restart, text, inflight, denied>>
  /\ UNCHANGED loginFaulted
  /\ hpc = "start_61"
  /\ bot_status' = "Attempting to log in..."
  /\ hpc' = "start_65"
  /\ UNCHANGED <<last, driver, live, created, sent_otps, jobs, hcount, conv, polled,
                 otpSends, notified>>

\* line 67, with a mutation that does not test what login returned
StartLogin_ignores_result ==
  /\ Running
  /\ UNCHANGED <<restart, text, inflight, denied>>
  /\ hpc = "start_65"
  /\ \E b \in LoginInputs :
       /\ driver # None => b.create = "ok"
       /\ (driver = None /\ b.create # "ctor_fault") => created < MaxHandles
       /\ LET r == login(driver, live, created, b)
          IN  /\ driver' = r.driver
              /\ live' = r.live
              /\ created' = r.created
              /\ notified' = notified \union Delivered(r.notes)
              /\ last' = Call("login", "start_command", b, r, <<>>)
              /\ loginFaulted' = DriverFault(r.exc)
              /\ IF r.raised
                 THEN hpc' = "idle" /\ UNCHANGED bot_status
                 ELSE /\ bot_status' = "Logged in. Checking for pop-ups..."
                      /\ hpc' = "start_69"
  /\ UNCHANGED <<sent_otps, jobs, hcount, conv, polled, otpSends>>

\* line 67 and its branches (lines 68, 82)
StartLogin ==
  /\ Running
  /\ UNCHANGED <<restart, text, inflight, denied>>
  /\ hpc = "start_65"
  /\ \E b \in LoginInputs :
       /\ driver # None => b.create = "ok"
       /\ (driver = None /\ b.create # "ctor_fault") => created < MaxHandles
       /\ LET r == login(driver, live, created, b)
          IN  /\ driver' = r.driver
              /\ live' = r.live
              /\ created' = r.created
              /\ notified' = notified \union Delivered(r.notes)
              /\ last' = Call("login", "start_command", b, r, <<>>)
              /\ loginFaulted' = DriverFault(r.exc)
              /\ IF r.raised
                 THEN hpc' = "idle" /\ UNCHANGED bot_status
                 ELSE IF r.ok
                 THEN /\ bot_status' = "Logged in. Checking for pop-ups..."
                      /\ hpc' = "start_69"
                 ELSE /\ bot_status' = "Login failed."
                      /\ hpc' = "idle"
  /\ UNCHANGED <<sent_otps, jobs, hcount, conv, polled, otpSends>>

\* lines 69-71
StartPopup ==
  /\ Running
  /\ UNCHANGED <<restart, text, inflight, denied>>
  /\ UNCHANGED loginFaulted
  /\ hpc = "start_69"
  /\ \E b \in PopupInputs :
       LET r == handle_popup(driver, b)
       IN  /\ notified' = notified \union Delivered(r.notes)
           /\ last' = Call("handle_popup", "start_command", b, r, <<>>)
           /\ IF r.raised
              THEN hpc' = "idle" /\ UNCHANGED bot_status
              ELSE /\ bot_status' = "Navigating to OTP page..."
                   /\ hpc' = "start_72"
  /\ UNCHANGED <<driver, live, created, sent_otps, jobs, hcount, conv, polled,
                 otpSends>>

\* lines 72-80
StartNavigate ==
  /\ Running
  /\ UNCHANGED <<restart, text, inflight, denied>>
  /\ UNCHANGED loginFaulted
  /\ hpc = "start_72"
  /\ \E b \in NavInputs :
       LET r == navigate_to_otp_page(driver, b)
       IN  /\ r.ok => jobs < MaxJobs
           /\ notified' = notified \union Delivered(r.notes)
           /\ last' = Call("navigate_to_otp_page", "start_command", b, r, <<>>)
           /\ hpc' = "idle"
           /\ IF r.raised
              THEN UNCHANGED <<bot_status, jobs>>
              ELSE IF r.ok
              THEN /\ bot_status' =
                        "Logged in and waiting for OTPs on the statistics page."
                   /\ jobs' = ScheduleMonitor(jobs)
              ELSE /\ bot_status' =
                        "Logged in, but failed to navigate to OTP page."
                   /\ UNCHANGED jobs
  /\ UNCHANGED <<driver, live, created, sent_otps, hcount, conv, polled,
                 otpSends>>

\* ------------------------------------------------- /restart
\* restart_command up to the await of reply_text (line 102)
RestartCommand ==
  /\ Running
  /\ UNCHANGED <<text, inflight, denied>>
  /\ UNCHANGED loginFaulted
  /\ hpc = "idle"
  /\ hpc' = "restart_102"
  /\ restart' = [on |-> TRUE, driver |-> driver, created |-> created]
  /\ UNCHANGED <<last, driver, live, created, sent_otps, bot_status, jobs, hcount,
                 conv, polled, otpSends, notified>>

\* lines 103-106, into start_command up to its await of reply_html; an
\* exception of close ends the handler
RestartClose ==
  /\ Running
  /\ UNCHANGED <<restart, text, inflight, denied>>
  /\ UNCHANGED loginFaulted
  /\ hpc = "restart_102"
  /\ \E q \in {"ok", "fault_released", "fault_live"} :
       /\ driver = None => q = "ok"
       /\ LET r == close(driver, live, q)
          IN  /\ driver' = r.driver
              /\ live' = r.live
              /\ last' = Call("close", "restart_command", [quit |-> q, quits |-> r.quits],
                              [ok |-> ~r.raised, raised |-> r.raised,
                               notes |-> <<>>], <<>>)
              /\ hpc' = IF r.raised THEN "idle" ELSE "start_61"
  /\ bot_status' = "Restarting..."
  /\ UNCHANGED <<created, sent_otps, jobs, hcount, conv, polled,
                 otpSends, notified>>

\* ------------------------------------------------- /last_otp
\* last_otp_command up to the await of reply_text (line 123)
LastOtpCommand ==
  /\ Running
  /\ UNCHANGED <<restart, text, inflight, denied>>
  /\ UNCHANGED loginFaulted
  /\ hpc = "idle"
  /\ \E count \in 1..MaxCount : hcount' = count
  /\ hpc' = "last_123"
  /\ UNCHANGED <<last, driver, live, created, sent_otps, bot_status, jobs, conv,
                 polled, otpSends, notified>>

\* lines 125-131
LastOtpFetch ==
  /\ Running
  /\ UNCHANGED <<restart, text, inflight, denied>>
  /\ UNCHANGED loginFaulted
  /\ hpc = "last_123"
  /\ \E b \in FeedInputs :
       LET r == fetch_new_otps(driver, sent_otps, b)
       IN  /\ sent_otps' = r.sent_otps
           /\ polled' = Returned(polled, r.out)
           /\ notified' = notified \union Delivered(r.notes)
           /\ last' = Call("fetch_new_otps", "last_otp_command", b, r, r.out)
           /\ otpSends' = send_message(otpSends, LastN(r.out, hcount))
  /\ hpc' = "idle"
  /\ hcount' = 0
  /\ UNCHANGED <<driver, live, created, bot_status, jobs, conv>>

\* ------------------------------------------------- the monitor job
\* monitor_otps, run by a job of the queue
MonitorTick ==
  /\ Running
  /\ UNCHANGED <<restart, text, inflight, denied>>
  /\ UNCHANGED loginFaulted
  /\ jobs > 0
  /\ ~InSync
  /\ \E b \in FeedInputs :
       LET r == fetch_new_otps(driver, sent_otps, b)
       IN  /\ sent_otps' = r.sent_otps
           /\ polled' = Returned(polled, r.out)
           /\ notified' = notified \union Delivered(r.notes)
           /\ last' = Call("fetch_new_otps", "monitor_otps", b, r, r.out)
           /\ otpSends' = send_message(otpSends, r.out)
  /\ UNCHANGED <<driver, live, created, bot_status, jobs, hpc, hcount, conv>>

\* ------------------------------------------------- /get_old_otps
\* get_old_otps_command: the prompt, then the conversation waits for dates
GetOldOtpsCommand ==
  /\ Running
  /\ UNCHANGED <<restart, text, inflight, denied>>
  /\ UNCHANGED loginFaulted
  /\ hpc = "idle"
  /\ conv = "END"
  /\ conv' = "DATE_INPUT"
  /\ UNCHANGED <<last, driver, live, created, sent_otps, bot_status, jobs, hpc,
                 hcount, polled, otpSends, notified>>

\* receive_dates up to the await of reply_text (line 148 or 153)
ReceiveDates ==
  /\ Running
  /\ UNCHANGED <<restart, loginFaulted, inflight, denied>>
  /\ hpc = "idle"
  /\ conv = "DATE_INPUT"
  /\ \E t \in DateTexts :
       /\ text' = t
       /\ hpc' = IF MatchesDatePattern(StripText(t)) THEN "dates_153"
                 ELSE "dates_148"
  /\ UNCHANGED <<last, driver, live, created, sent_otps, bot_status, jobs, hcount,
                 conv, polled, otpSends, notified>>

\* line 149: the text did not match; the conversation stays where it is
DatesInvalid ==
  /\ Running
  /\ UNCHANGED <<restart, loginFaulted, inflight, denied>>
  /\ hpc = "dates_148"
  /\ hpc' = "idle"
  /\ text' = <<>>
  /\ UNCHANGED <<last, driver, live, created, sent_otps, bot_status, jobs, hcount,
                 conv, polled, otpSends, notified>>

\* lines 151-162; the unpacking of line 151 raises ValueError unless split
\* gives two strings, and the handler ends there
DatesFetch ==
  /\ Running
  /\ UNCHANGED <<restart, loginFaulted, inflight, denied>>
  /\ hpc = "dates_153"
  /\ LET args == Split(StripText(text))
     IN  IF Len(args) # 2
         THEN UNCHANGED <<last, notified, conv>>
         ELSE /\ \E b \in FeedHistInputs :
                   LET r == get_historical_otps(driver, b)
                   IN  /\ notified' = notified \union Delivered(r.notes)
                       /\ last' = Call("get_historical_otps", "receive_dates",
                                       b @@ [start_date |-> args[1],
                                             end_date |-> args[2]],
                                       r, r.out)
              /\ conv' = "END"
  /\ hpc' = "idle"
  /\ UNCHANGED <<driver, live, created, sent_otps, bot_status, jobs, hcount,
                 text, polled, otpSends>>

\* cancel_command
CancelCommand ==
  /\ Running
  /\ UNCHANGED <<restart, text, inflight, denied>>
  /\ UNCHANGED loginFaulted
  /\ hpc = "idle"
  /\ conv = "DATE_INPUT"
  /\ conv' = "END"
  /\ UNCHANGED <<last, driver, live, created, sent_otps, bot_status, jobs, hpc,
                 hcount, polled, otpSends, notified>>

\* the engine call of the latest step returns to its caller; with it a
\* handler that made its last call returns, and its /restart is over
Return ==
  /\ last # NoCall
  /\ last' = NoCall
  /\ restart' = IF hpc = "idle" THEN NoRestart ELSE restart
  /\ text' = IF hpc = "idle" THEN <<>> ELSE text
  /\ UNCHANGED <<loginFaulted, inflight, denied>>
  /\ UNCHANGED <<driver, live, created, sent_otps, bot_status, jobs, hpc,
                 hcount, conv, polled, otpSends, notified>>

Next ==
  \/ StartCommand
  \/ StartOnline
  \/ StartLogin
  \/ StartPopup
  \/ StartNavigate
  \/ RestartCommand
  \/ RestartClose
  \/ LastOtpCommand
  \/ LastOtpFetch
  \/ MonitorTick
  \/ GetOldOtpsCommand
  \/ ReceiveDates
  \/ DatesInvalid
  \/ DatesFetch
  \/ CancelCommand
  \/ Return

Spec == Init /\ [][Next]_vars

\* ------------------------------------------------- the engine alone
\* The public methods of IvaSmsScraper called in any order by any caller,
\* as the __main__ block of scraper.py or a test would.
controllerVars ==
  <<bot_status, jobs, hpc, hcount, conv, text, otpSends, restart, inflight, denied>>

EngLogin ==
  /\ Running
  /\ \E b \in LoginInputs :
       /\ driver # None => b.create = "ok"
       /\ (driver = None /\ b.create # "ctor_fault") => created < MaxHandles
       /\ LET r == login(driver, live, created, b)
          IN  /\ driver' = r.driver
              /\ live' = r.live
              /\ created' = r.created
              /\ notified' = notified \union Delivered(r.notes)
              /\ last' = Call("login", "__main__", b, r, <<>>)
              /\ loginFaulted' = DriverFault(r.exc)
  /\ UNCHANGED <<sent_otps, polled, controllerVars>>

EngHandlePopup ==
  /\ Running
  /\ UNCHANGED loginFaulted
  /\ \E b \in PopupInputs :
       LET r == handle_popup(driver, b)
       IN  /\ notified' = notified \union Delivered(r.notes)
           /\ last' = Call("handle_popup", "__main__", b, r, <<>>)
  /\ UNCHANGED <<driver, live, created, sent_otps, polled, controllerVars>>

EngNavigate ==
  /\ Running
  /\ UNCHANGED loginFaulted
  /\ \E b \in NavInputs :
       LET r == navigate_to_otp_page(driver, b)
       IN  /\ notified' = notified \union Delivered(r.notes)
           /\ last' = Call("navigate_to_otp_page", "__main__", b, r, <<>>)
  /\ UNCHANGED <<driver, live, created, sent_otps, polled, controllerVars>>

EngFetch ==
  /\ Running
  /\ UNCHANGED loginFaulted
  /\ \E b \in FetchInputs :
       LET r == fetch_new_otps(driver, sent_otps, b)
       IN  /\ sent_otps' = r.sent_otps
           /\ polled' = Returned(polled, r.out)
           /\ notified' = notified \union Delivered(r.notes)
           /\ last' = Call("fetch_new_otps", "__main__", b, r, r.out)
  /\ UNCHANGED <<driver, live, created, controllerVars>>

EngHistorical ==
  /\ Running
  /\ UNCHANGED loginFaulted
  /\ \E b \in HistInputs :
       LET r == get_historical_otps(driver, b)
       IN  /\ notified' = notified \union Delivered(r.notes)
           /\ last' = Call("get_historical_otps", "__main__", b, r, r.out)
  /\ UNCHANGED <<driver, live, created, sent_otps, polled, controllerVars>>

EngClose ==
  /\ Running
  /\ UNCHANGED loginFaulted
  /\ \E q \in {"ok", "fault_released", "fault_live"} :
       /\ driver = None => q = "ok"
       /\ LET r == close(driver, live, q)
          IN  /\ driver' = r.driver
              /\ live' = r.live
              /\ last' = Call("close", "__main__", [quit |-> q, quits |-> r.quits],
                              [ok |-> ~r.raised, raised |-> r.raised,
                               notes |-> <<>>], <<>>)
  /\ UNCHANGED <<created, sent_otps, polled, notified, controllerVars>>

EngNext ==
  \/ EngLogin
  \/ EngHandlePopup
  \/ EngNavigate
  \/ EngFetch
  \/ EngHistorical
  \/ EngClose
  \/ Return

SpecEngine == Init /\ [][EngNext]_vars

\* ------------------------------------------------- claims
EngineOps ==
  {"login", "handle_popup", "navigate_to_otp_page", "fetch_new_otps",
   "get_historical_otps"}

\* the identities of the rows of a page that have a message text
RowIdentities(rows) ==
  {Strip(rows[k]) : k \in {j \in 1..Len(rows) : rows[j] # Malformed}}

\* C1: over any run of polls, by the monitor job or by /last_otp, on any
\* pages, fetch_new_otps returns no identity more than once, and no identity
\* is sent to the chat as a new or last OTP more than once.
C1_NoIdentityPolledTwice ==
  \A i \in Ids : polled[i] <= 1 /\ otpSends[i] <= polled[i]

\* C1 witness: a poll read a row whose identity an earlier poll had returned
\* and forwarded, and did not return it again.
C1_Witness ==
  /\ last.op = "fetch_new_otps"
  /\ last.ok
  /\ \E i \in Ids :
       /\ i \in RowIdentities(last.b.rows)
       /\ i \in last.sent_otps
       /\ otpSends[i] = 1
       /\ \A k \in 1..Len(last.out) : last.out[k] # i

\* C2: a fetch_new_otps call on a page whose rows are all blank or already
\* in sent_otps (or that has no row) returns the empty list and leaves
\* sent_otps as it was.
C2_UnchangedFeedPollsNothing ==
  (/\ last.op = "fetch_new_otps"
   /\ RowIdentities(last.b.rows) \subseteq last.sent_otps \union {Empty})
  => (last.out = <<>> /\ sent_otps = last.sent_otps)

\* C2 witness: a successful poll of a page with rows, all of them seen
\* before, returned nothing.
C2_Witness ==
  /\ last.op = "fetch_new_otps"
  /\ last.ok
  /\ ~last.b.marker
  /\ last.b.failAt = 0
  /\ Len(last.b.rows) = MaxRows
  /\ RowIdentities(last.b.rows) \subseteq last.sent_otps
  /\ RowIdentities(last.b.rows) # {}
  /\ last.out = <<>>
  /\ sent_otps = last.sent_otps

\* C3 (as claimed): once no handler is in progress, every identity in
\* sent_otps has been sent to the chat.
C3_SeenWereDelivered ==
  (hpc = "idle" /\ Running) => \A i \in sent_otps : otpSends[i] >= 1

\* C4 (as claimed): close never raises and leaves the engine with no handle.
C4_ShutdownClearsHandle ==
  last.op = "close" => (~last.raised /\ driver = None)

\* C5: at most one handle is live, it is the one the engine holds, and a
\* login that builds a handle does so when no handle is live.
C5_AtMostOneLiveHandle ==
  /\ Cardinality(live) <= 1
  /\ live \subseteq {driver}
  /\ (last.op = "login" /\ created > last.created) => last.live = {}

\* C5 witness: a second handle was built, after the first was released.
C5_Witness ==
  /\ last.op = "login"
  /\ created = 2
  /\ last.created = 1
  /\ live = {2}

\* C6: login, handle_popup, navigate_to_otp_page, fetch_new_otps and
\* get_historical_otps never raise, whatever the driver does and whether or
\* not the engine holds a handle; a failed call returns False or [].
C6_EngineCallsNeverRaise ==
  last.op \in EngineOps => (~last.raised /\ (~last.ok => last.out = <<>>))

\* C6 witness: a poll made after the handle was shut down returned [].
C6_Witness ==
  /\ last.op = "fetch_new_otps"
  /\ last.driver = None
  /\ created >= 1
  /\ ~last.ok
  /\ ~last.raised
  /\ last.out = <<>>

\* C7 (as claimed): the failure notification of every failed login,
\* navigate_to_otp_page, fetch_new_otps or get_historical_otps reaches the
\* operator chat.
C7_FailuresReachTheChat ==
  (/\ last.op \in {"login", "navigate_to_otp_page", "fetch_new_otps",
                   "get_historical_otps"}
   /\ ~last.ok)
  => (/\ last.notes # <<>>
      /\ last.notes[Len(last.notes)] \in notified)

\* the credentials were submitted: nothing raised before the final wait
Submitted ==
  /\ last.op = "login"
  /\ last.b.fault = NoExc
  /\ last.driver = None => last.b.create = "ok"

\* C8 (as claimed): once the credentials are submitted, login succeeds if
\* and only if the URL matches the authenticated area or the sidebar menu is
\* present within the bound.
C8_LoginSucceedsOnEitherCondition ==
  Submitted =>
    (last.ok <=> (last.b.page \cap {"url_portal", "sidebar"} # {}))

\* the login call of this step built the handle the engine now holds
NewHandle == created > last.created /\ driver = created

\* C9 (as claimed): after a login that failed on a driver fault the status
\* reads "Login failed.", and a later login that succeeds uses a newly
\* created handle.
C9_RetryUsesNewHandle ==
  /\ (last.op = "login" /\ ~last.ok /\ ~last.raised)
       => bot_status = "Login failed."
  /\ (last.op = "login" /\ last.ok /\ last.loginFaulted) => NewHandle

\* C9 (amended): after a login that failed on a driver fault the status
\* reads "Login failed."; a later login that succeeds uses a newly created
\* handle exactly when the engine held none when it was called, and
\* otherwise the handle the engine already held.
C9_RetryAfterFailedLogin ==
  /\ (last.op = "login" /\ ~last.ok /\ ~last.raised)
       => bot_status = "Login failed."
  /\ (last.op = "login" /\ last.ok /\ last.loginFaulted)
       => /\ NewHandle <=> last.driver = None
          /\ ~NewHandle => (driver = last.driver /\ created = last.created)

\* C9 witness: the login after one that failed on a driver fault succeeded
\* on a handle built in that call.
C9_Witness ==
  /\ last.op = "login"
  /\ last.ok
  /\ last.loginFaulted
  /\ NewHandle
  /\ bot_status = "Logged in. Checking for pop-ups..."

\* C10: handle_popup returns False when no modal shows within its bound, and
\* True when a modal shows, Next does not become clickable, Done becomes
\* clickable and is clicked, and the modal goes away.
C10_PopupOutcome ==
  last.op = "handle_popup" =>
    /\ "modal" \notin last.b.page => ~last.ok
    /\ (/\ last.driver # None
        /\ "modal" \in last.b.page
        /\ "next_clickable" \notin last.b.page
        /\ "done_clickable" \in last.b.page
        /\ last.b.click # "done_fault"
        /\ "modal_gone" \in last.b.page) => last.ok

\* C10 witness: a modal was closed through Done alone.
C10_Witness ==
  /\ last.op = "handle_popup"
  /\ last.ok
  /\ "next_clickable" \notin last.b.page
  /\ last.notes = <<"Pop-up detected. Attempting to close.",
                    "Pop-up closed successfully.">>

\* what the caller of a handle_popup call has to tell its outcomes apart:
\* the value returned, whether it raised, and the closing notification
PopupOutcome(r) ==
  <<r.ok, r.raised, IF r.notes = <<>> THEN "" ELSE r.notes[Len(r.notes)]>>

\* C11 (as claimed): when the modal showed and then Done did not become
\* clickable, or the modal did not go away, within the bound, the outcome of
\* handle_popup differs from its outcome when no modal showed.
C11_PopupErrorDistinguishable ==
  (/\ last.op = "handle_popup"
   /\ last.driver # None
   /\ last.b.click = "ok"
   /\ "modal" \in last.b.page
   /\ \/ "done_clickable" \notin last.b.page
      \/ "modal_gone" \notin last.b.page)
  => PopupOutcome(last) #
       PopupOutcome(handle_popup(last.driver, [page |-> {}, click |-> "ok"]))

\* the trimmed message texts of the rows that have a message cell, in page
\* order
RECURSIVE Bodies(_)
Bodies(rows) ==
  IF rows = <<>> THEN <<>>
  ELSE (IF Head(rows) = Malformed THEN <<>> ELSE <<Strip(Head(rows))>>)
       \o Bodies(Tail(rows))

\* the rows of a table that have no message cell
MalformedRows(rows) == {k \in 1..Len(rows) : rows[k] = Malformed}

SkipNotices(rows) ==
  [k \in 1..Cardinality(MalformedRows(rows)) |->
     "Could not find message text in a row. Skipping."]

\* the elements of a sequence
Range(seq) == {seq[k] : k \in 1..Len(seq)}

\* the call read every row of a table that rendered with rows: the reload
\* and the form worked, no marker, no driver fault on a row
ReadWholeTable ==
  /\ last.op \in {"fetch_new_otps", "get_historical_otps"}
  /\ last.driver # None
  /\ last.b.get = "ok"
  /\ last.op = "get_historical_otps" => last.b.form = "ok"
  /\ ~last.b.marker
  /\ last.b.failAt = 0
  /\ last.b.rows # <<>>

\* C12: extraction over a table in which some rows lack the message cell
\* yields the trimmed texts of the other rows in page order and one skip
\* notice per row without the cell, and does not abort: the call succeeds,
\* get_historical_otps returns these texts (N-1 of them when one row of N
\* lacks the cell) and fetch_new_otps puts every non-empty one in
\* sent_otps.
C12_MalformedRowsAreSkipped ==
  ReadWholeTable =>
    /\ last.ok
    /\ last.notes = SkipNotices(last.b.rows)
    /\ last.op = "get_historical_otps" =>
         /\ last.out = Bodies(last.b.rows)
         /\ Cardinality(MalformedRows(last.b.rows)) = 1
              => Len(last.out) = Len(last.b.rows) - 1
    /\ last.op = "fetch_new_otps" =>
         sent_otps = last.sent_otps \union
                       (Range(Bodies(last.b.rows)) \ {Empty})

\* C12 witness: a table of MaxRows rows whose first row lacks the cell gave
\* the text of every other row and one skip notice.
C12_Witness ==
  /\ ReadWholeTable
  /\ last.op = "get_historical_otps"
  /\ Len(last.b.rows) = MaxRows
  /\ MalformedRows(last.b.rows) = {1}
  /\ Len(last.out) = MaxRows - 1
  /\ last.out[1] \in Ids
  /\ Len(last.notes) = 1

\* C13 (as claimed): the records get_historical_otps returns were read from
\* the table drawn in answer to the submitted query, never from the rows the
\* reload had drawn before the query was submitted.
C13_RangeResultIsTheQueriedTable ==
  (last.op = "get_historical_otps" /\ last.out # <<>>)
    => last.b.table = "queried"

\* C14: sent_otps only grows: no step of the engine or of the controller
\* (login, handle_popup, navigate_to_otp_page, fetch_new_otps,
\* get_historical_otps, close, the /restart command) takes an identity out
\* of it.
C14_SeenSetOnlyGrows == [][sent_otps \subseteq sent_otps']_vars

\* C14 witness: a /restart shut the handle down and the identities seen
\* before it are all still in sent_otps.
C14_Witness ==
  /\ last.op = "close"
  /\ last.driver # None
  /\ ~last.raised
  /\ restart.on
  /\ Cardinality(last.sent_otps) = MaxId
  /\ sent_otps = last.sent_otps

\* the rows of a page that the extraction gets to read
RowsRead(b) ==
  IF b.marker THEN <<>>
  ELSE IF b.failAt = 0 THEN b.rows
  ELSE SubSeq(b.rows, 1, b.failAt - 1)

\* C15: get_historical_otps neither reads nor writes sent_otps: it returns
\* the text of every row it read, those already in sent_otps included, and
\* leaves sent_otps as it was; so do login, handle_popup,
\* navigate_to_otp_page and close. Only fetch_new_otps changes it.
C15_RangeQueryBypassesSeenSet ==
  /\ last.op \in {"login", "handle_popup", "navigate_to_otp_page",
                  "get_historical_otps", "close"}
       => sent_otps = last.sent_otps
  /\ (last.op = "get_historical_otps" /\ last.ok)
       => last.out = Bodies(RowsRead(last.b))
  /\ (last.op # "none" /\ sent_otps # last.sent_otps)
       => last.op = "fetch_new_otps"

\* C15 witness: a range query returned a full table of identities that were
\* all in sent_otps already, and sent_otps is as before.
C15_Witness ==
  /\ last.op = "get_historical_otps"
  /\ last.ok
  /\ Len(last.out) = MaxRows
  /\ Range(last.out) \subseteq last.sent_otps
  /\ Range(last.out) \subseteq Ids
  /\ sent_otps = last.sent_otps

\* C16 (as claimed): get_historical_otps returns no empty text: a row whose
\* message cell is empty or blank is dropped from its result.
C16_RangeResultHasNoEmptyIdentity ==
  last.op = "get_historical_otps" =>
    \A k \in 1..Len(last.out) : last.out[k] # Empty

\* the extraction of a poll did not run to its end: its wait timed out, or
\* the driver faulted on a row
ExtractionFaulted ==
  /\ last.op = "fetch_new_otps"
  /\ last.driver # None
  /\ last.b.get = "ok"
  /\ \/ TableWaitCondition \notin TableConditions(last.b.rows, last.b.marker)
     \/ ~last.b.marker /\ last.b.failAt \in 1..Len(last.b.rows)

\* C17 (as claimed): when a wait timeout or a driver fault occurs during the
\* extraction, part-way through the rows included, fetch_new_otps returns no
\* record and leaves sent_otps as it was.
C17_FaultedExtractionYieldsNothing ==
  ExtractionFaulted => (last.out = <<>> /\ sent_otps = last.sent_otps)

\* C18 (as claimed): on a page that shows the "no data" marker and no data
\* row, the extraction's wait resolves and the poll returns the empty list
\* as a normal result: the one notice is the "no data" one, no
\* extraction-error notification.
C18_NoDataMarkerIsNotAnError ==
  (/\ last.op = "fetch_new_otps"
   /\ last.driver # None
   /\ last.b.get = "ok"
   /\ last.b.marker
   /\ last.b.rows = <<>>)
  => /\ last.ok
     /\ last.out = <<>>
     /\ last.notes = <<"No data available in the SMS statistics table.">>

\* the handler of a /restart has run to its end
RestartProcessed == restart.on /\ hpc = "idle"

\* C19 (as claimed): once a /restart has been processed, the handle the
\* engine held before it has been released, and a handle the engine holds
\* now was created during the restart.
C19_RestartRebuildsHandle ==
  RestartProcessed =>
    /\ restart.driver # None => restart.driver \notin live
    /\ driver # None => driver > restart.created

\* the steps of a /restart that follow its shutdown step
AfterShutdownStep ==
  restart.on /\ hpc \in {"start_61", "start_65", "start_69", "start_72"}

\* C20 (as claimed): between the shutdown step of a /restart and the end of
\* its login, handle_popup and navigate_to_otp_page steps, the monitor job
\* makes no fetch_new_otps call.
C20_NoPollInsideRestart ==
  ~(AfterShutdownStep /\ last.op = "fetch_new_otps")

\* C21: under every interleaving of the command handlers and the monitor
\* job on the event loop, an engine call (login, handle_popup,
\* navigate_to_otp_page, fetch_new_otps, get_historical_otps, close) begins
\* only when no engine call is outstanding.
C21_OneCallInFlight ==
  [][(last' # NoCall /\ last' # last) => last = NoCall]_vars

\* C21 witness: the monitor job polled while a command handler was
\* suspended at an await, after the handler's earlier engine call returned.
C21_Witness ==
  /\ last.op = "fetch_new_otps"
  /\ last.by = "monitor_otps"
  /\ hpc \in {"start_61", "start_65", "last_123", "dates_153"}
  /\ restart.on

\* C22 (as claimed): the monitor job polls only a session whose latest login
\* and latest navigation both succeeded: once a /start or /restart has
\* ended in a failed login or a failed navigation no monitor job is left in
\* the queue, and no tick of the job polls under such a status.
C22_PollsOnlyOnFeed ==
  /\ (/\ hpc = "idle"
      /\ bot_status \in {"Login failed.",
                         "Logged in, but failed to navigate to OTP page."})
       => jobs = 0
  /\ (last.op = "fetch_new_otps" /\ last.by = "monitor_otps")
       => bot_status \notin {"Login failed.",
                             "Logged in, but failed to navigate to OTP page."}

\* C27 (as claimed): after any sequence of /start and /restart commands at
\* most one job named 'monitor_job' is in the queue.
C27_AtMostOneMonitorJob == jobs <= 1

\* the call of get_historical_otps by receive_dates
RangeQueryByReceiveDates ==
  last.op = "get_historical_otps" /\ last.by = "receive_dates"

\* the conversation leaves the date-input state only by /cancel or by a
\* receive_dates that called get_historical_otps
ConversationEndsOnQueryOrCancel ==
  (conv = "DATE_INPUT" /\ conv' = "END") =>
    (CancelCommand \/ (last'.op = "get_historical_otps"
                       /\ last'.by = "receive_dates"))

\* C23 (as claimed): receive_dates calls get_historical_otps only with two
\* strings of the form YYYY-MM-DD, taken from a message text that matches
\* the pattern; on a text that does not match the call is not made and the
\* conversation stays in the date-input state.
C23_DatesValidatedBeforeQuery ==
  /\ RangeQueryByReceiveDates =>
       /\ MatchesDatePattern(text)
       /\ last.b.start_date = DateToken
       /\ last.b.end_date = DateToken
  /\ hpc = "dates_148" => (~MatchesDatePattern(text) /\ conv = "DATE_INPUT")

\* C23 (amended): the same, with the pattern applied to the message text
\* once blanks at its two ends are removed; and the conversation ends only
\* after such a text or /cancel.
C23_TrimmedDatesValidatedBeforeQuery ==
  /\ [](/\ RangeQueryByReceiveDates =>
             /\ MatchesDatePattern(StripText(text))
             /\ last.b.start_date = DateToken
             /\ last.b.end_date = DateToken
        /\ hpc = "dates_148" =>
             (~MatchesDatePattern(StripText(text)) /\ conv = "DATE_INPUT"))
  /\ [][ConversationEndsOnQueryOrCancel]_vars

\* C23 witness: a text with blanks around two dates was accepted and the
\* range query was made with the two dates.
C23_Witness ==
  /\ RangeQueryByReceiveDates
  /\ text # StripText(text)
  /\ last.b.start_date = DateToken
  /\ last.b.end_date = DateToken
  /\ conv = "END"

\* a tick of the monitor job whose poll failed
FailedTick ==
  /\ last.op = "fetch_new_otps"
  /\ last.by = "monitor_otps"
  /\ ~last.ok

\* C24: a tick of the monitor job whose fetch_new_otps failed (driver fault,
\* timeout, no handle) ends without raising and with the empty result, and
\* the job stays in the queue for its next tick, which polls again.
C24_FailedPollKeepsCadence ==
  FailedTick => (~last.raised /\ last.out = <<>> /\ jobs > 0)

\* C24 witness: a tick polled an engine that holds no handle and that had
\* seen identities in earlier ticks; the job is still scheduled.
C24_Witness ==
  /\ FailedTick
  /\ last.driver = None
  /\ last.sent_otps # {}
  /\ "An unexpected error occurred during new OTP fetch" \in Range(last.notes)
  /\ jobs > 0
  /\ hpc = "idle"

\* the waits of navigate_to_otp_page, in order
NavWaits == <<"sidebar", "menu_clickable", "link_clickable", "url_feed">>

\* the wait of navigate_to_otp_page that times out on page b when no click
\* faults; 0 when none does
TimedOutStep(b) ==
  LET missing == {i \in 1..Len(NavWaits) : NavWaits[i] \notin b.page}
  IN  IF missing = {} THEN 0
      ELSE CHOOSE i \in missing : \A j \in missing : i <= j

\* what navigate_to_otp_page reports of a call: the value returned, whether
\* it raised, its notifications. The text of a TimeoutException raised by
\* until() without a message is the same for every wait.
NavOutcome(r) == <<r.ok, r.raised, r.notes>>

\* C25 (as claimed): when navigate_to_otp_page fails on a wait that timed
\* out, what it reports differs from what it reports when any other of its
\* waits times out: the report identifies the step.
C25_NavigationFailureNamesStep ==
  (/\ last.op = "navigate_to_otp_page"
   /\ last.driver # None
   /\ last.b.click = "ok"
   /\ TimedOutStep(last.b) # 0)
  => \A b \in NavInputs :
       (/\ b.click = "ok"
        /\ TimedOutStep(b) # 0
        /\ TimedOutStep(b) # TimedOutStep(last.b))
       => NavOutcome(navigate_to_otp_page(last.driver, b)) # NavOutcome(last)

\* the statuses start_command ends in
OnFeed == "Logged in and waiting for OTPs on the statistics page."
NavigationFailed == "Logged in, but failed to navigate to OTP page."
LoginFailed == "Login failed."

\* a run of start_command has just ended, with login or with
\* navigate_to_otp_page as its last engine call
StartCompleted ==
  /\ hpc = "idle"
  /\ last.op \in {"login", "navigate_to_otp_page"}
  /\ last.by = "start_command"

\* C28: when a run of start_command ends, the status is the on-feed one
\* exactly when its navigation succeeded, "Login failed." exactly when its
\* login failed, and the failed-navigation one exactly when its navigation
\* failed; the status becomes the on-feed one only by a successful
\* navigation, navigation is attempted only after the pop-up step, and that
\* step only after a successful login of the same run.
C28_StatusFollowsStateMachine ==
  /\ [](StartCompleted =>
          /\ bot_status = OnFeed
               <=> (last.op = "navigate_to_otp_page" /\ last.ok)
          /\ bot_status = LoginFailed <=> (last.op = "login" /\ ~last.ok)
          /\ bot_status = NavigationFailed
               <=> (last.op = "navigate_to_otp_page" /\ ~last.ok))
  /\ [][(bot_status' = OnFeed /\ bot_status # OnFeed)
          => (/\ hpc = "start_72"
              /\ last'.op = "navigate_to_otp_page"
              /\ last'.ok)]_vars
  /\ [][(hpc' = "start_72" /\ hpc # "start_72") => hpc = "start_69"]_vars
  /\ [][(hpc' = "start_69" /\ hpc # "start_69")
          => (last'.op = "login" /\ last'.ok)]_vars

\* C28 witness: a /restart that built a second handle ended on the feed and
\* scheduled the first monitor job.
C28_Witness ==
  /\ StartCompleted
  /\ restart.on
  /\ bot_status = OnFeed
  /\ jobs = 1
  /\ created = 2

\* C29: when login, handle_popup, navigate_to_otp_page, fetch_new_otps or
\* get_historical_otps fails on an engine that holds a handle, the engine
\* holds the same handle afterwards, in the state it was in; a handle is
\* dropped or quit only by close.
C29_FailureKeepsHandle ==
  /\ (last.op \in EngineOps /\ ~last.ok /\ last.driver # None)
       => /\ driver = last.driver
          /\ live = last.live
          /\ created = last.created
  /\ (/\ last.op # "none"
      /\ \/ ~(last.live \subseteq live)
         \/ last.driver # None /\ driver # last.driver)
       => last.op = "close"

\* C29 witness: a login failed on a driver fault on an engine that held a
\* live handle, and the engine still holds it.
C29_Witness ==
  /\ last.op = "login"
  /\ ~last.ok
  /\ last.b.fault = WebDriverException
  /\ last.driver # None
  /\ last.driver \in last.live
  /\ driver = last.driver
  /\ driver \in live

\* the places of a list that hold the first occurrence of a non-empty text
\* that is not in seen
NewIndices(otps, seen) ==
  {k \in 1..Len(otps) :
     /\ otps[k] # Empty
     /\ otps[k] \notin seen
     /\ \A j \in 1..(k - 1) : otps[j] # otps[k]}

\* the subsequence of a list at a set of places
SubseqAt(otps, idx) ==
  LET F[k \in 0..Len(otps)] ==
        IF k = 0 THEN <<>>
        ELSE IF k \in idx THEN Append(F[k - 1], otps[k]) ELSE F[k - 1]
  IN  F[Len(otps)]

\* C30: a fetch_new_otps that succeeds returns the subsequence of the
\* extracted texts, in page order, made of the first occurrence of each
\* non-empty text that was not in sent_otps before the call; a
\* get_historical_otps that succeeds returns the extracted texts in page
\* order.
C30_ResultsKeepPageOrder ==
  /\ (last.op = "fetch_new_otps" /\ last.ok) =>
       LET extracted == Bodies(RowsRead(last.b))
       IN  last.out = SubseqAt(extracted, NewIndices(extracted, last.sent_otps))
  /\ (last.op = "get_historical_otps" /\ last.ok) =>
       last.out = Bodies(RowsRead(last.b))

\* C30 witness: a poll of a page of two new texts, the larger identity
\* first, returned them in the order of the page.
C30_Witness ==
  /\ last.op = "fetch_new_otps"
  /\ last.ok
  /\ Len(last.out) = 2
  /\ last.out[1] > last.out[2]
  /\ last.out = Bodies(last.b.rows)


\* ------------------------------------------------- the waits of a call
\* One engine call followed wait by wait.  Time is counted in seconds.  A
\* step of a call is a wait on the driver: an explicit WebDriverWait, the
\* page load of driver.get, the implicit wait of an element lookup, or the
\* sleep of navigate_to_otp_page.  onTimeout is where the call goes when the
\* wait runs out: 0 when the exception leaves the method through one of its
\* except clauses, else the number of the step the call continues at.

\* driver.set_page_load_timeout(30)
PageLoadTimeout == 30

\* driver.implicitly_wait(10)
ImplicitWait == 10

WaitStep(kind, bound, onTimeout) ==
  [kind |-> kind, bound |-> bound, onTimeout |-> onTimeout]

\* driver.get(url): a TimeoutException after the page load timeout
PageLoad == WaitStep("get", PageLoadTimeout, 0)

\* driver.find_element: a NoSuchElementException after the implicit wait
FindElement == WaitStep("find_element", ImplicitWait, 0)

\* WebDriverWait(driver, t).until(...): a TimeoutException after t seconds
BoundedWait(t) == WaitStep("until", t, 0)

\* _extract_otps_from_table, entered as step `first` of a call: the wait
\* for the table, the two find_elements (an empty list after the implicit
\* wait, no exception) and one lookup per row (a lookup that runs out is
\* the row skipped).  A timeout of the first wait is caught inside the
\* method, which returns what it has: the call goes on after the last step.
ExtractSteps(first) ==
  <<WaitStep("until", 10, first + 3 + MaxRows),
    WaitStep("find_elements", ImplicitWait, first + 2),
    WaitStep("find_elements", ImplicitWait, first + 3)>> \o
  [i \in 1..MaxRows |-> WaitStep("find_element", ImplicitWait, first + 3 + i)]

Steps(op) ==
  CASE op = "login" ->
         <<PageLoad, BoundedWait(20), FindElement, FindElement, FindElement,
           BoundedWait(20)>>
    [] op = "handle_popup" ->
         <<BoundedWait(5), WaitStep("until", 3, 4), WaitStep("until", 3, 4),
           BoundedWait(5), BoundedWait(5)>>
    [] op = "navigate_to_otp_page" ->
         <<BoundedWait(10), BoundedWait(10), WaitStep("sleep", 1, 4), BoundedWait(10),
           BoundedWait(15)>>
    [] op = "fetch_new_otps" ->
         <<PageLoad>> \o ExtractSteps(2)
    [] op = "get_historical_otps" ->
         <<PageLoad, BoundedWait(10), FindElement, FindElement, FindElement,
           BoundedWait(15)>> \o ExtractSteps(7)

\* the call at step n of its method, the clock of that wait just started
AtStep(op, n) ==
  [op |-> op, step |-> n,
   left |-> IF n <= Len(Steps(op)) THEN Steps(op)[n].bound ELSE 0,
   tick |-> 0]

Waiting == inflight # NoWait /\ inflight.step <= Len(Steps(inflight.op))

CurrentStep == Steps(inflight.op)[inflight.step]

\* a wait that has no bound never runs out
Expired_never(left) == FALSE

\* `time.monotonic() > end_time` of WebDriverWait.until, and the timers of
\* the driver: the wait runs out when none of its time is left
Expired(left) == left = 0

\* a caller calls one of the five methods
WBegin ==
  /\ inflight = NoWait
  /\ last = NoCall
  /\ \E op \in EngineOps : inflight' = AtStep(op, 1)
  /\ UNCHANGED <<driver, live, created, sent_otps, bot_status, jobs, hpc,
                 hcount, conv, text, polled, otpSends, notified,
                 loginFaulted, restart, denied, last>>

\* what the wait is for has not happened yet and time passes: one poll of
\* until (half a second or more: a lookup inside the condition may take the
\* whole implicit wait) or a second of a driver timer or of the sleep
WPoll ==
  /\ Waiting
  /\ ~Expired(inflight.left)
  /\ \E d \in {1, ImplicitWait} :
       inflight' = [inflight EXCEPT
                      !.left = IF @ > d THEN @ - d ELSE 0,
                      !.tick = 1 - @]
  /\ UNCHANGED <<driver, live, created, sent_otps, bot_status, jobs, hpc,
                 hcount, conv, text, polled, otpSends, notified,
                 loginFaulted, restart, denied, last>>

\* what the wait is for happens: the call goes on with its next step (a
\* sleep is not for anything: it only ends by running out)
WResolve ==
  /\ Waiting
  /\ CurrentStep.kind # "sleep"
  /\ inflight' = AtStep(inflight.op, inflight.step + 1)
  /\ UNCHANGED <<driver, live, created, sent_otps, bot_status, jobs, hpc,
                 hcount, conv, text, polled, otpSends, notified,
                 loginFaulted, restart, denied, last>>

\* the wait runs out: the exception ends the call through an except clause
\* of the method, or is caught inside it and the call continues
WExpire ==
  /\ Waiting
  /\ Expired(inflight.left)
  /\ inflight' = IF CurrentStep.onTimeout = 0
                 THEN NoWait
                 ELSE AtStep(inflight.op, CurrentStep.onTimeout)
  /\ UNCHANGED <<driver, live, created, sent_otps, bot_status, jobs, hpc,
                 hcount, conv, text, polled, otpSends, notified,
                 loginFaulted, restart, denied, last>>

\* the driver raises a WebDriverException (or self.driver is None): every
\* method catches it in its `except ... WebDriverException` or
\* `except Exception` clause and returns
WFault ==
  /\ Waiting
  /\ inflight' = NoWait
  /\ UNCHANGED <<driver, live, created, sent_otps, bot_status, jobs, hpc,
                 hcount, conv, text, polled, otpSends, notified,
                 loginFaulted, restart, denied, last>>

\* past its last wait the method returns
WReturn ==
  /\ inflight # NoWait
  /\ ~Waiting
  /\ inflight' = NoWait
  /\ UNCHANGED <<driver, live, created, sent_otps, bot_status, jobs, hpc,
                 hcount, conv, text, polled, otpSends, notified,
                 loginFaulted, restart, denied, last>>

\* a step of the call in progress
WStep ==
  \/ WPoll
  \/ WResolve
  \/ WExpire
  \/ WFault
  \/ WReturn

WNext ==
  \/ WBegin
  \/ WStep

\* The methods are synchronous code run by one thread: a call that has
\* begun keeps running, so its steps are weakly fair.  Nothing is assumed
\* about the driver: whether a wait is resolved is never forced.
SpecWaits == Init /\ [][WNext]_vars /\ WF_vars(WStep)

\* C26: every call of login, handle_popup, navigate_to_otp_page,
\* fetch_new_otps and get_historical_otps returns, whatever the driver
\* does: each of its waits has a finite bound, so a call in progress leads
\* to the call having returned.
C26_EngineCallsTerminate == (inflight # NoWait) ~> (inflight = NoWait)

\* C26 witness: navigate_to_otp_page is in its last wait, for the feed URL,
\* and the driver has let all 15 seconds of it pass.
C26_Witness ==
  /\ inflight # NoWait
  /\ inflight.op = "navigate_to_otp_page"
  /\ inflight.step = 5
  /\ inflight.left = 0


\* the number of places of a list that hold a given text
Occurrences(otps, o) == Cardinality({k \in 1..Len(otps) : otps[k] = o})

\* C31: fetch_new_otps tests and adds record by record: a text that was not
\* in sent_otps and that the extraction read in one or more rows is in the
\* returned list exactly once, and no text is in it twice.
C31_BatchDuplicatesReturnedOnce ==
  last.op = "fetch_new_otps" =>
    \A i \in Ids :
      /\ Occurrences(last.out, i) <= 1
      /\ (/\ last.ok
          /\ i \notin last.sent_otps
          /\ Occurrences(Bodies(RowsRead(last.b)), i) >= 1)
         => Occurrences(last.out, i) = 1

\* C31 witness: a poll read a new text in two rows of one page, once with
\* blanks around it, and returned it once.
C31_Witness ==
  /\ last.op = "fetch_new_otps"
  /\ last.ok
  /\ \E i \in Ids :
       /\ i \notin last.sent_otps
       /\ Occurrences(Bodies(RowsRead(last.b)), i) = 2
       /\ last.b.rows[1] # last.b.rows[2]
       /\ last.out = <<i>>


\* C32: sent_otps never holds the empty text and fetch_new_otps never
\* returns it: a row whose text is empty or only blanks fails the `otp`
\* test of the loop, before the membership test.
C32_NoEmptyIdentity ==
  /\ Empty \notin sent_otps
  /\ last.op = "fetch_new_otps" =>
       \A k \in 1..Len(last.out) : last.out[k] # Empty

\* C32 witness: a poll read a page with a row of blanks only and a row with
\* a new text, and returned the text alone.
C32_Witness ==
  /\ last.op = "fetch_new_otps"
  /\ last.ok
  /\ Len(last.b.rows) = 2
  /\ last.b.rows[1] = 1
  /\ Len(last.out) = 1
  /\ last.out[1] \in Ids
  /\ sent_otps = last.sent_otps \union {last.out[1]}


\* the step of last_otp_command that polls and sends (lines 125-131), on a
\* poll that succeeded
LastOtpDelivery == hpc = "last_123" /\ hpc' = "idle" /\ last'.ok

\* the records a page shows, in page order: its non-empty texts, each once
ShownRecords(b) ==
  LET extracted == Bodies(RowsRead(b))
  IN  SubseqAt(extracted, NewIndices(extracted, {}))

\* C33 (as claimed): /last_otp with count N sends to the chat the last N
\* records the feed shows (all of them when it shows fewer), each once,
\* whether or not fetch_new_otps returned them before.
C33_LastOtpDeliversShownRecords ==
  [][LastOtpDelivery =>
       \A i \in Ids :
         otpSends'[i] - otpSends[i] =
           Occurrences(LastN(ShownRecords(last'.b), hcount), i)]_vars


\* C34: a fetch_new_otps call on an engine whose self.driver is None (no
\* login yet, after close, or after a login whose webdriver.Chrome raised)
\* returns [], leaves sent_otps as it was, creates no handle and does not
\* raise.
C34_PollWithoutHandleIsEmpty ==
  (last.op = "fetch_new_otps" /\ last.driver = None) =>
    /\ last.out = <<>>
    /\ ~last.raised
    /\ sent_otps = last.sent_otps
    /\ driver = None
    /\ created = last.created
    /\ live = last.live

\* C34 witness: after a login whose handle creation failed, with no handle
\* ever created, a poll of a page showing a new text returned [] and added
\* nothing to sent_otps.
C34_Witness ==
  /\ last.op = "fetch_new_otps"
  /\ last.driver = None
  /\ last.loginFaulted
  /\ created = 0
  /\ last.b.get = "ok"
  /\ last.b.failAt = 0
  /\ ~last.b.marker
  /\ RowIdentities(last.b.rows) # {}
  /\ last.out = <<>>
  /\ sent_otps = {}


\* ------------------------------------------------- updates from any chat
\* The chats an update can come from: the configured one (self.chat_id) and
\* another one.
chat_id == "chat_id"
Chats == {chat_id, "other"}

\* the handlers that begin with `if not await self._check_authorized(update):
\* return`
Handlers ==
  {"start_command", "restart_command", "last_otp_command",
   "get_old_otps_command", "receive_dates", "cancel_command"}

\* the check, with a mutation that lets every chat through
_check_authorized_anyone(chat) == TRUE

\* _check_authorized: update.effective_chat.id == self.chat_id
_check_authorized(chat) == chat = chat_id

\* the check failed: the reply of line 51, then the handler returns (END for
\* the handlers of the conversation, whose state is kept per chat: the
\* conversation of the configured chat is not touched)
Denied ==
  /\ Running
  /\ hpc = "idle"
  /\ denied < MaxDenied
  /\ denied' = denied + 1
  /\ UNCHANGED <<driver, live, created, sent_otps, bot_status, jobs, hpc,
                 hcount, conv, text, polled, otpSends, notified,
                 loginFaulted, restart, inflight, last>>

\* an update for handler h from a chat: the check, then the handler
Update(h, chat) ==
  \/ /\ _check_authorized(chat)
     /\ \/ h = "start_command" /\ StartCommand
        \/ h = "restart_command" /\ RestartCommand
        \/ h = "last_otp_command" /\ LastOtpCommand
        \/ h = "get_old_otps_command" /\ GetOldOtpsCommand
        \/ h = "receive_dates" /\ ReceiveDates
        \/ h = "cancel_command" /\ CancelCommand
  \/ /\ ~_check_authorized(chat)
     /\ Denied

AnyUpdate == \E h \in Handlers, chat \in Chats : Update(h, chat)

NextChats ==
  \/ AnyUpdate
  \/ Next

SpecChats == Init /\ [][NextChats]_vars

\* an update for one of the six handlers arrives from the other chat
UpdateFromOtherChat == \E h \in Handlers : Update(h, "other")

\* C35: an update for start_command, restart_command, last_otp_command,
\* get_old_otps_command, receive_dates or cancel_command from a chat that
\* is not the configured one calls no engine method and changes neither
\* the handle, sent_otps, the status, the jobs, the handler in progress nor
\* the conversation.
C35_OtherChatsChangeNothing ==
  [][UpdateFromOtherChat =>
       /\ last' = NoCall
       /\ UNCHANGED <<driver, live, created, sent_otps, bot_status, jobs,
                      hpc, hcount, conv, text, restart>>]_vars

\* C35 witness: an update from the other chat was answered while the engine
\* was on the feed with a handle, the monitor job scheduled and the date
\* conversation of the configured chat open: all of it is as it was.
C35_Witness ==
  /\ denied > 0
  /\ driver # None
  /\ bot_status = OnFeed
  /\ jobs > 0
  /\ conv = "DATE_INPUT"
  /\ hpc = "idle"
  /\ last = NoCall

====
